---- MODULE Spec2Model ----
(***************************************************************************)
(* Model of pt_pal_editor/src/main.c: the startup (setupVideo), the frame  *)
(* loop of main(), the coordinate mapper readMouseXY(), the event          *)
(* dispatcher handleInput() and the quit dialog showAskToSaveDialog().     *)
(***************************************************************************)
EXTENDS Integers, Sequences, FiniteSets, TLC

(***************************************************************************)
(* Program constants.                                                      *)
(***************************************************************************)
\* Logical canvas size (gui.h is not part of the sources at hand; the
\* values are those of the specification's 128x64 scenario).
SCREEN_W == 128
SCREEN_H == 64

\* 16.16 fixed point: the neutral multiplier, the rounding half unit, the
\* number of fraction bits, and 2^16 as the limb base of 32-bit arithmetic.
NeutralMul == 65536
HalfUnit == 32768
Word16 == 65536
Byte8 == 256

\* SDL_Delay((1000 / 60) + 1)
DelayMs == (1000 \div 60) + 1

(***************************************************************************)
(* Bounds of the model.                                                    *)
(***************************************************************************)
\* Events the platform posts during one run.
MaxEvents == 2
\* Iterations of the frame loop.
MaxTicks == 2
\* MapSpec: window widths 0..MaxWinW and heights 0..MaxWinH.
MaxWinW == 258
MaxWinH == 130

(***************************************************************************)
(* 32-bit unsigned arithmetic of readMouseXY, computed on 16-bit limbs so  *)
(* that no intermediate value leaves the range of TLC's integers.  *)
(***************************************************************************)
\* The low and the high 16 bits of (uint32_t)n, for an int32_t n.
Lo16(n) == n % Word16
Hi16(n) == (n \div Word16) % Word16

\* (a * b) mod 2^16 for 0 <= a, b < 2^16.
MulMod16(a, b) == ((((a \div Byte8) * b) % Byte8) * Byte8 + (a % Byte8) * b) % Word16

\* (((uint32_t)raw * mul) + (1 << 15)) >> 16, the arithmetic modulo 2^32.
ScaleShift_Shift15(raw, mul) ==
    LET rl == Lo16(raw)
        rh == Hi16(raw)
        ml == Lo16(mul)
        mh == Hi16(mul)
        p1 == (rl \div Byte8) * ml
        p2 == (rl % Byte8) * ml
        s  == (p1 % Byte8) * Byte8 + (p2 % Word16) + HalfUnit
        cross == (MulMod16(rh, ml) + MulMod16(rl, mh)) % Word16
        hi == ((p1 \div Byte8) + (p2 \div Word16) + (s \div Word16) + cross) % Word16
    IN  (2 * hi + ((s % Word16) \div HalfUnit)) % Word16

ScaleShift_NoRounding(raw, mul) ==
    LET rl == Lo16(raw)
        rh == Hi16(raw)
        ml == Lo16(mul)
        mh == Hi16(mul)
        p1 == (rl \div Byte8) * ml
        p2 == (rl % Byte8) * ml
        s  == (p1 % Byte8) * Byte8 + (p2 % Word16)
        cross == (MulMod16(rh, ml) + MulMod16(rl, mh)) % Word16
    IN  ((p1 \div Byte8) + (p2 \div Word16) + (s \div Word16) + cross) % Word16

ScaleShift(raw, mul) ==
    LET rl == Lo16(raw)
        rh == Hi16(raw)
        ml == Lo16(mul)
        mh == Hi16(mul)
        p1 == (rl \div Byte8) * ml
        p2 == (rl % Byte8) * ml
        s  == (p1 % Byte8) * Byte8 + (p2 % Word16) + HalfUnit
        cross == (MulMod16(rh, ml) + MulMod16(rl, mh)) % Word16
    IN  ((p1 \div Byte8) + (p2 \div Word16) + (s \div Word16) + cross) % Word16

\* (int16_t)v for 0 <= v < 2^16.
ToInt16(v) == IF v >= HalfUnit THEN v - Word16 ELSE v

\* if (mx < 0) mx = 0;
ClampLow_Off(raw) == raw

ClampLow(raw) == IF raw < 0 THEN 0 ELSE raw

\* if (mx >= SCREEN_W) mx = SCREEN_W - 1;
ClampHigh_Off(v, dim) == v

ClampHigh(v, dim) == IF v >= dim THEN dim - 1 ELSE v

\* One axis of readMouseXY: raw device coordinate to logical coordinate.
MapCoord(raw, mul, dim) == ToInt16(ClampHigh(ScaleShift(ClampLow(raw), mul), dim))

\* (dScale == 0.0) ? 65536 : (uint32_t)round(65536.0 / dScale), where
\* dScale = size / (double)dim: round half away from zero of 65536*dim/size.
ScaleMul_Truncating(size, dim) ==
    IF size = 0 THEN NeutralMul ELSE (NeutralMul * dim) \div size

ScaleMul(size, dim) ==
    IF size = 0 THEN NeutralMul ELSE (2 * NeutralMul * dim + size) \div (2 * size)

(***************************************************************************)
(* Events of the platform queue: SDL_Event.type with the one field the     *)
(* dispatcher reads (key.keysym.sym or button.button).                     *)
(***************************************************************************)
SDL_BUTTON_LEFT == 1
Buttons == {SDL_BUTTON_LEFT, 3}
Keys == {97, 98}

Ev(t, a) == [type |-> t, arg |-> a]

QuitEvent == Ev("SDL_QUIT", 0)

Events ==
    {QuitEvent, Ev("SDL_MOUSEMOTION", 0)}
    \cup {Ev("SDL_KEYDOWN", k) : k \in Keys}
    \cup {Ev(t, b) : t \in {"SDL_MOUSEBUTTONUP", "SDL_MOUSEBUTTONDOWN"},
                     b \in Buttons}

\* Window sizes SDL_GetWindowSize may report, and raw pointer positions
\* SDL_GetMouseState may report, in the runs of the whole program.
WinSizes == {<<2 * SCREEN_W, 2 * SCREEN_H>>, <<SCREEN_W, SCREEN_H>>, <<0, 0>>}
RawPoints == {<<0, 0>>, <<-3, 2 * SCREEN_H - 1>>, <<2 * SCREEN_W - 1, -1>>, <<70000, 9>>}

\* The five failure points of setupVideo, in program order.
FailPoints == {"SDL_Init", "SDL_CreateWindow", "SDL_CreateRenderer",
               "SDL_CreateTexture", "malloc"}

VARIABLES
    pc,             \* where the single thread of control stands
    programRunning, \* volatile bool programRunning
    redrawScreen,   \* volatile bool redrawScreen
    allowSigterm,   \* volatile bool allowSigterm = true
    configIsSaved,  \* the "is saved" flag handleInput reads
    queue,          \* the platform's event queue
    qmark,          \* for each queued event: it was posted while the modal was open
    posted,         \* events posted so far
    winW, winH,     \* w, h of setupVideo
    xScaleMul, yScaleMul, \* input.mouse.xScaleMul, input.mouse.yScaleMul
    mx, my,         \* raw position last given by SDL_GetMouseState
    mouseX, mouseY, \* input.mouse.x, input.mouse.y
    ticks,          \* iterations of the frame loop begun
    log,            \* calls made since the loop condition was last evaluated
    redrawAsked,    \* a handler set redrawScreen in this iteration
    modalCalls,     \* calls of SDL_ShowMessageBox
    saveCalls,      \* calls of savePalette(0)
    answer,         \* what SDL_ShowMessageBox last gave back
    exitCode,       \* what main returned; -1 while it has not returned
    sleptMs         \* milliseconds slept in SDL_Delay in this iteration

flags == <<programRunning, redrawScreen, allowSigterm>>
mouse == <<winW, winH, xScaleMul, yScaleMul, mx, my, mouseX, mouseY>>
counts == <<modalCalls, saveCalls, answer>>
vars == <<pc, programRunning, redrawScreen, allowSigterm, configIsSaved, queue,
          qmark, posted, winW, winH, xScaleMul, yScaleMul, mx, my, mouseX, mouseY,
          ticks, log, redrawAsked, modalCalls, saveCalls, answer, exitCode, sleptMs>>

\* Statics and globals are zero-initialised; allowSigterm = true.
Init ==
    /\ pc = "main"
    /\ programRunning = FALSE
    /\ redrawScreen = FALSE
    /\ allowSigterm = TRUE
    /\ configIsSaved \in BOOLEAN
    /\ queue = <<>>
    /\ qmark = <<>>
    /\ posted = 0
    /\ winW = 0 /\ winH = 0
    /\ xScaleMul = 0 /\ yScaleMul = 0
    /\ mx = 0 /\ my = 0
    /\ mouseX = 0 /\ mouseY = 0
    /\ ticks = 0
    /\ log = <<>>
    /\ redrawAsked = FALSE
    /\ modalCalls = 0
    /\ saveCalls = 0
    /\ answer = "none"
    /\ exitCode = -1
    /\ sleptMs = 0

(***************************************************************************)
(* main(): startup.                                                        *)
(***************************************************************************)
\* setupVideo fails at point p: one error box, return false; main then
\* calls SDL_Quit and returns 0.
SetupVideoFail_ExitOne(p) ==
    /\ pc = "main"
    /\ log' = <<p, "showErrorMsgBox", "SDL_Quit">>
    /\ exitCode' = 1
    /\ pc' = "done"
    /\ UNCHANGED <<flags, configIsSaved, queue, qmark, posted, mouse, ticks,
                   redrawAsked, counts, sleptMs>>

SetupVideoFail(p) ==
    /\ pc = "main"
    /\ log' = <<p, "showErrorMsgBox", "SDL_Quit">>
    /\ exitCode' = 0
    /\ pc' = "done"
    /\ UNCHANGED <<flags, configIsSaved, queue, qmark, posted, mouse, ticks,
                   redrawAsked, counts, sleptMs>>

\* The end of setupVideo: the scale multipliers from the window size.
SetScaleMul(w, h) ==
    /\ winW' = w /\ winH' = h
    /\ xScaleMul' = ScaleMul(w, SCREEN_W)
    /\ yScaleMul' = ScaleMul(h, SCREEN_H)

\* setupVideo succeeds; setupGUI(); redrawScreen = true; programRunning = true.
MainStart_NoRedraw(size) ==
    /\ pc = "main"
    /\ SetScaleMul(size[1], size[2])
    /\ redrawScreen' = FALSE
    /\ programRunning' = TRUE
    /\ log' = <<"setupVideo", "setupGUI">>
    /\ pc' = "loop"
    /\ UNCHANGED <<allowSigterm, configIsSaved, queue, qmark, posted, mx, my,
                   mouseX, mouseY, ticks, redrawAsked, counts, exitCode, sleptMs>>

MainStart(size) ==
    /\ pc = "main"
    /\ SetScaleMul(size[1], size[2])
    /\ redrawScreen' = TRUE
    /\ programRunning' = TRUE
    /\ log' = <<"setupVideo", "setupGUI">>
    /\ pc' = "loop"
    /\ UNCHANGED <<allowSigterm, configIsSaved, queue, qmark, posted, mx, my,
                   mouseX, mouseY, ticks, redrawAsked, counts, exitCode, sleptMs>>

(***************************************************************************)
(* main(): the frame loop.                                                 *)
(***************************************************************************)
\* while (programRunning): the condition holds, the body is entered.
LoopEnter ==
    /\ pc = "loop"
    /\ programRunning
    /\ ticks < MaxTicks
    /\ ticks' = ticks + 1
    /\ log' = <<>>
    /\ redrawAsked' = FALSE
    /\ sleptMs' = 0
    /\ pc' = "readMouseXY"
    /\ UNCHANGED <<flags, configIsSaved, queue, qmark, posted, mouse, counts, exitCode>>

\* while (programRunning): the condition fails; free, SDL_Quit, return 0.
LoopExit_LeakFrameBuffer ==
    /\ pc = "loop"
    /\ ~programRunning
    /\ \E loaded \in BOOLEAN :
          log' = (IF loaded THEN <<"free(loadedFile)">> ELSE <<>>) \o <<"SDL_Quit">>
    /\ exitCode' = 0
    /\ pc' = "done"
    /\ UNCHANGED <<flags, configIsSaved, queue, qmark, posted, mouse, ticks,
                   redrawAsked, counts, sleptMs>>

LoopExit ==
    /\ pc = "loop"
    /\ ~programRunning
    /\ \E loaded \in BOOLEAN :
          log' = (IF loaded THEN <<"free(loadedFile)">> ELSE <<>>)
                 \o <<"free(frameBuffer)", "SDL_Quit">>
    /\ exitCode' = 0
    /\ pc' = "done"
    /\ UNCHANGED <<flags, configIsSaved, queue, qmark, posted, mouse, ticks,
                   redrawAsked, counts, sleptMs>>

\* readMouseXY(), raw being what SDL_GetMouseState reports.
ReadMouseXYBody(raw) ==
    /\ mx' = raw[1]
    /\ my' = raw[2]
    /\ mouseX' = MapCoord(raw[1], xScaleMul, SCREEN_W)
    /\ mouseY' = MapCoord(raw[2], yScaleMul, SCREEN_H)
    /\ UNCHANGED <<winW, winH, xScaleMul, yScaleMul>>

ReadMouseXY(raw) ==
    /\ pc = "readMouseXY"
    /\ ReadMouseXYBody(raw)
    /\ log' = Append(log, "readMouseXY")
    /\ pc' = "handleInput"
    /\ UNCHANGED <<flags, configIsSaved, queue, qmark, posted, ticks, redrawAsked,
                   counts, exitCode, sleptMs>>

\* The platform posts an event; the program sees it at its next
\* SDL_PumpEvents / SDL_PollEvent, also one posted while the modal is open.
PostEvent(e) ==
    /\ pc \in {"readMouseXY", "handleInput", "modal"}
    /\ posted < MaxEvents
    /\ posted' = posted + 1
    /\ queue' = Append(queue, e)
    /\ qmark' = Append(qmark, pc = "modal")
    /\ UNCHANGED <<pc, flags, configIsSaved, mouse, ticks, log, redrawAsked,
                   counts, exitCode, sleptMs>>

(***************************************************************************)
(* The external handlers of gui.c (keyDownHandler, mouseButtonUpHandler,   *)
(* mouseButtonDownHandler, handleSlidersHeldDown, handleRainbowHeldDown,   *)
(* handleRainbowUpDownButtons): each may ask for a redraw by setting       *)
(* redrawScreen, and may edit the palette, which leaves it unsaved.        *)
(***************************************************************************)
ExternalHandlers(names) ==
    \E ask \in BOOLEAN, edit \in BOOLEAN :
        /\ redrawScreen' = (redrawScreen \/ ask)
        /\ redrawAsked' = (redrawAsked \/ ask)
        /\ configIsSaved' = (configIsSaved /\ ~edit)
        /\ log' = log \o names

(***************************************************************************)
(* handleInput(): one iteration of while (SDL_PollEvent(&inputEvent)) per  *)
(* action, by the branch taken.                                            *)
(***************************************************************************)
Polled(e) ==
    /\ pc = "handleInput"
    /\ queue # <<>>
    /\ Head(queue) = e
    /\ queue' = Tail(queue)
    /\ qmark' = Tail(qmark)

\* SDL_QUIT && allowSigterm, !configIsSaved: allowSigterm = false, and
\* showAskToSaveDialog() up to its blocking SDL_ShowMessageBox.
HandleQuitUnsaved_NoGuard ==
    /\ Polled(QuitEvent)
    /\ allowSigterm
    /\ ~configIsSaved
    /\ allowSigterm' = allowSigterm
    /\ modalCalls' = modalCalls + 1
    /\ log' = log \o <<"SDL_QUIT", "SDL_ShowMessageBox">>
    /\ pc' = "modal"
    /\ UNCHANGED <<programRunning, redrawScreen, configIsSaved, posted, mouse,
                   ticks, redrawAsked, saveCalls, answer, exitCode, sleptMs>>

HandleQuitUnsaved ==
    /\ Polled(QuitEvent)
    /\ allowSigterm
    /\ ~configIsSaved
    /\ allowSigterm' = FALSE
    /\ modalCalls' = modalCalls + 1
    /\ log' = log \o <<"SDL_QUIT", "SDL_ShowMessageBox">>
    /\ pc' = "modal"
    /\ UNCHANGED <<programRunning, redrawScreen, configIsSaved, posted, mouse,
                   ticks, redrawAsked, saveCalls, answer, exitCode, sleptMs>>

\* SDL_QUIT && allowSigterm, configIsSaved: programRunning = false.
HandleQuitSaved_AskAnyway ==
    /\ Polled(QuitEvent)
    /\ allowSigterm
    /\ configIsSaved
    /\ allowSigterm' = FALSE
    /\ modalCalls' = modalCalls + 1
    /\ log' = log \o <<"SDL_QUIT", "SDL_ShowMessageBox">>
    /\ pc' = "modal"
    /\ UNCHANGED <<programRunning, redrawScreen, configIsSaved, posted, mouse,
                   ticks, redrawAsked, saveCalls, answer, exitCode, sleptMs>>

HandleQuitSaved ==
    /\ Polled(QuitEvent)
    /\ allowSigterm
    /\ configIsSaved
    /\ programRunning' = FALSE
    /\ log' = Append(log, "SDL_QUIT")
    /\ UNCHANGED <<pc, redrawScreen, allowSigterm, configIsSaved, posted, mouse,
                   ticks, redrawAsked, counts, exitCode, sleptMs>>

\* SDL_KEYDOWN: keyDownHandler(inputEvent.key.keysym.sym); the key code is
\* logged after the handler's name.
HandleKeyDown(k) ==
    /\ Polled(Ev("SDL_KEYDOWN", k))
    /\ ExternalHandlers(<<"SDL_KEYDOWN", "keyDownHandler", ToString(k)>>)
    /\ UNCHANGED <<pc, programRunning, allowSigterm, posted, mouse, ticks,
                   counts, exitCode, sleptMs>>

\* SDL_MOUSEBUTTONUP, SDL_BUTTON_LEFT: mouseButtonUpHandler().
HandleMouseButtonUp ==
    /\ Polled(Ev("SDL_MOUSEBUTTONUP", SDL_BUTTON_LEFT))
    /\ ExternalHandlers(<<"SDL_MOUSEBUTTONUP", "mouseButtonUpHandler">>)
    /\ UNCHANGED <<pc, programRunning, allowSigterm, posted, mouse, ticks,
                   counts, exitCode, sleptMs>>

\* SDL_MOUSEBUTTONDOWN, SDL_BUTTON_LEFT: mouseButtonDownHandler().
HandleMouseButtonDown ==
    /\ Polled(Ev("SDL_MOUSEBUTTONDOWN", SDL_BUTTON_LEFT))
    /\ ExternalHandlers(<<"SDL_MOUSEBUTTONDOWN", "mouseButtonDownHandler">>)
    /\ UNCHANGED <<pc, programRunning, allowSigterm, posted, mouse, ticks,
                   counts, exitCode, sleptMs>>

\* The events no branch acts on: SDL_QUIT while allowSigterm is false, a
\* mouse button other than the left one, any other event type.
NoBranch(e) ==
    \/ e.type = "SDL_QUIT" /\ ~allowSigterm
    \/ e.type \in {"SDL_MOUSEBUTTONUP", "SDL_MOUSEBUTTONDOWN"} /\ e.arg # SDL_BUTTON_LEFT
    \/ e.type \notin {"SDL_QUIT", "SDL_KEYDOWN", "SDL_MOUSEBUTTONUP", "SDL_MOUSEBUTTONDOWN"}

HandleIgnored_NoButtonTest(e) ==
    /\ Polled(e)
    /\ NoBranch(e)
    /\ IF e.type = "SDL_MOUSEBUTTONUP"
         THEN /\ ExternalHandlers(<<"SDL_MOUSEBUTTONUP", "mouseButtonUpHandler">>)
              /\ UNCHANGED <<programRunning, allowSigterm>>
         ELSE /\ log' = Append(log, e.type)
              /\ UNCHANGED <<flags, configIsSaved, redrawAsked>>
    /\ UNCHANGED <<pc, posted, mouse, ticks, counts, exitCode, sleptMs>>

HandleIgnored(e) ==
    /\ Polled(e)
    /\ NoBranch(e)
    /\ log' = Append(log, e.type)
    /\ UNCHANGED <<pc, flags, configIsSaved, posted, mouse, ticks,
                   redrawAsked, counts, exitCode, sleptMs>>

(***************************************************************************)
(* showAskToSaveDialog() from the return of SDL_ShowMessageBox on.         *)
(***************************************************************************)
\* SDL_ShowMessageBox(...) < 0: allowSigterm = true; programRunning = false.
ModalError_KeepGuard ==
    /\ pc = "modal"
    /\ answer' = "error"
    /\ allowSigterm' = allowSigterm
    /\ programRunning' = FALSE
    /\ pc' = "handleInput"
    /\ UNCHANGED <<redrawScreen, configIsSaved, queue, qmark, posted, mouse, ticks,
                   log, redrawAsked, modalCalls, saveCalls, exitCode, sleptMs>>

ModalError ==
    /\ pc = "modal"
    /\ answer' = "error"
    /\ allowSigterm' = TRUE
    /\ programRunning' = FALSE
    /\ pc' = "handleInput"
    /\ UNCHANGED <<redrawScreen, configIsSaved, queue, qmark, posted, mouse, ticks,
                   log, redrawAsked, modalCalls, saveCalls, exitCode, sleptMs>>

\* whichButtonPressed == 0 ("No"): programRunning = false.
ModalNo_KeepsRunning ==
    /\ pc = "modal"
    /\ answer' = "No"
    /\ pc' = "handleInput"
    /\ UNCHANGED <<flags, configIsSaved, queue, qmark, posted, mouse, ticks, log,
                   redrawAsked, modalCalls, saveCalls, exitCode, sleptMs>>

ModalNo ==
    /\ pc = "modal"
    /\ answer' = "No"
    /\ programRunning' = FALSE
    /\ pc' = "handleInput"
    /\ UNCHANGED <<redrawScreen, allowSigterm, configIsSaved, queue, qmark, posted,
                   mouse, ticks, log, redrawAsked, modalCalls, saveCalls, exitCode, sleptMs>>

\* whichButtonPressed == 1 ("Yes"): savePalette(0) is called next.
ModalYes ==
    /\ pc = "modal"
    /\ answer' = "Yes"
    /\ pc' = "savePalette"
    /\ UNCHANGED <<flags, configIsSaved, queue, qmark, posted, mouse, ticks, log,
                   redrawAsked, modalCalls, saveCalls, exitCode, sleptMs>>

\* savePalette(0), of palette.c: it may succeed, which leaves the palette
\* saved, or fail.
SavePalette ==
    /\ pc = "savePalette"
    /\ saveCalls' = saveCalls + 1
    /\ \E ok \in BOOLEAN : configIsSaved' = (configIsSaved \/ ok)
    /\ log' = Append(log, "savePalette")
    /\ pc' = "saved"
    /\ UNCHANGED <<flags, queue, qmark, posted, mouse, ticks, redrawAsked,
                   modalCalls, answer, exitCode, sleptMs>>

\* programRunning = false, the last statement of showAskToSaveDialog.
DialogStop ==
    /\ pc = "saved"
    /\ programRunning' = FALSE
    /\ pc' = "handleInput"
    /\ UNCHANGED <<redrawScreen, allowSigterm, configIsSaved, queue, qmark, posted,
                   mouse, ticks, log, redrawAsked, counts, exitCode, sleptMs>>

(***************************************************************************)
(* handleInput() after the drain, and the rest of the loop body.           *)
(***************************************************************************)
\* SDL_PollEvent returns 0: the three held-down handlers, then return.
HeldHandlers_NotWhenStopped ==
    /\ pc = "handleInput"
    /\ queue = <<>>
    /\ IF programRunning
         THEN ExternalHandlers(<<"handleSlidersHeldDown", "handleRainbowHeldDown",
                                 "handleRainbowUpDownButtons">>)
         ELSE UNCHANGED <<redrawScreen, redrawAsked, configIsSaved, log>>
    /\ pc' = "redraw"
    /\ UNCHANGED <<programRunning, allowSigterm, queue, qmark, posted, mouse, ticks,
                   counts, exitCode, sleptMs>>

HeldHandlers ==
    /\ pc = "handleInput"
    /\ queue = <<>>
    /\ ExternalHandlers(<<"handleSlidersHeldDown", "handleRainbowHeldDown",
                          "handleRainbowUpDownButtons">>)
    /\ pc' = "redraw"
    /\ UNCHANGED <<programRunning, allowSigterm, queue, qmark, posted, mouse, ticks,
                   counts, exitCode, sleptMs>>

RenderCalls == <<"SDL_UpdateTexture", "SDL_RenderClear", "SDL_RenderCopy",
                 "SDL_RenderPresent">>

\* if (redrawScreen) { redrawScreen = false; upload, clear, copy, present }
Redraw_Always ==
    /\ pc = "redraw"
    /\ redrawScreen' = FALSE
    /\ log' = log \o RenderCalls
    /\ pc' = "delay"
    /\ UNCHANGED <<programRunning, allowSigterm, configIsSaved, queue, qmark, posted,
                   mouse, ticks, redrawAsked, counts, exitCode, sleptMs>>

Redraw_BreakWhenStopped ==
    /\ pc = "redraw"
    /\ redrawScreen' = (redrawScreen /\ ~programRunning)
    /\ log' = IF redrawScreen /\ programRunning THEN log \o RenderCalls ELSE log
    /\ pc' = IF programRunning THEN "delay" ELSE "loop"
    /\ UNCHANGED <<programRunning, allowSigterm, configIsSaved, queue, qmark, posted,
                   mouse, ticks, redrawAsked, counts, exitCode, sleptMs>>

Redraw_NotWhenStopped ==
    /\ pc = "redraw"
    /\ redrawScreen' = (redrawScreen /\ ~programRunning)
    /\ log' = IF redrawScreen /\ programRunning THEN log \o RenderCalls ELSE log
    /\ pc' = "delay"
    /\ UNCHANGED <<programRunning, allowSigterm, configIsSaved, queue, qmark, posted,
                   mouse, ticks, redrawAsked, counts, exitCode, sleptMs>>

Redraw ==
    /\ pc = "redraw"
    /\ redrawScreen' = FALSE
    /\ log' = IF redrawScreen THEN log \o RenderCalls ELSE log
    /\ pc' = "delay"
    /\ UNCHANGED <<programRunning, allowSigterm, configIsSaved, queue, qmark, posted,
                   mouse, ticks, redrawAsked, counts, exitCode, sleptMs>>

\* SDL_Delay((1000 / 60) + 1), then back to the loop condition.
Delay ==
    /\ pc = "delay"
    /\ log' = Append(log, "SDL_Delay")
    /\ sleptMs' = sleptMs + DelayMs
    /\ pc' = "loop"
    /\ UNCHANGED <<flags, configIsSaved, queue, qmark, posted, mouse, ticks,
                   redrawAsked, counts, exitCode>>

Next ==
    \/ \E p \in FailPoints : SetupVideoFail(p)
    \/ \E size \in WinSizes : MainStart(size)
    \/ LoopEnter
    \/ LoopExit
    \/ \E raw \in RawPoints : ReadMouseXY(raw)
    \/ \E e \in Events : PostEvent(e)
    \/ HandleQuitUnsaved
    \/ HandleQuitSaved
    \/ \E k \in Keys : HandleKeyDown(k)
    \/ HandleMouseButtonUp
    \/ HandleMouseButtonDown
    \/ \E e \in Events : HandleIgnored(e)
    \/ ModalError
    \/ ModalNo
    \/ ModalYes
    \/ SavePalette
    \/ DialogStop
    \/ HeldHandlers
    \/ Redraw
    \/ Delay

Spec == Init /\ [][Next]_vars

\* The one thread of control keeps running: a step of the program that can
\* be taken is taken, SDL_ShowMessageBox and the external calls return.
ProgramStep == Next /\ posted' = posted

FairSpec == Spec /\ WF_vars(ProgramStep)

(***************************************************************************)
(* The program from its start to the first readMouseXY(), over every       *)
(* window width 0..MaxWinW and height 0..MaxWinH and every raw coordinate  *)
(* on either axis, the 32-bit extremes included.                           *)
(***************************************************************************)
MapWinSizes ==
    {<<w, 2 * SCREEN_H>> : w \in 0..MaxWinW} \cup {<<2 * SCREEN_W, h>> : h \in 0..MaxWinH}

MapRaws(n) == (-2..n) \cup {65535, 65536, 131071, 2147483647, -2147483647}

MapRawPoints ==
    {<<r, 0>> : r \in MapRaws(MaxWinW)} \cup {<<0, r>> : r \in MapRaws(MaxWinH)}

MapInit == Init /\ configIsSaved

MapNext ==
    \/ \E size \in MapWinSizes : MainStart(size)
    \/ LoopEnter
    \/ \E raw \in MapRawPoints : ReadMouseXY(raw)

MapSpec == MapInit /\ [][MapNext]_vars

(***************************************************************************)
(* Vocabulary of the properties.                                           *)
(***************************************************************************)
IsRenderCall(c) == \E i \in 1..Len(RenderCalls) : RenderCalls[i] = c
IsQuitPoll(c) == c = "SDL_QUIT"

\* The render calls, and the quit signals polled, of the current iteration.
Rendered == SelectSeq(log, IsRenderCall)
QuitsPolled == Len(SelectSeq(log, IsQuitPoll))

\* The step polls the event e.
Polls(e) == pc = "handleInput" /\ queue # <<>> /\ Head(queue) = e /\ queue' = Tail(queue)

\* The step is the return of SDL_ShowMessageBox with the result r.
ModalReturns(r) == pc = "modal" /\ pc' # "modal" /\ answer' = r

\* The frame loop has been entered and the Running Flag is false again.
Stopped == pc \notin {"main", "done"} /\ ~programRunning

(***************************************************************************)
(* C1. When a quit signal is handled with unsaved state and the modal is   *)
(* displayed: "Yes" invokes savePalette(0) before the Running Flag becomes *)
(* false, i.e. the flag is still true when savePalette(0) is invoked, and  *)
(* "No" sets the flag false with savePalette never invoked; for every      *)
(* sequence of events, also when the flag was already false or the modal   *)
(* was attempted before.                                                   *)
(***************************************************************************)
C1_SaveBeforeStop ==
    [][/\ (saveCalls' # saveCalls) => programRunning
       /\ ModalReturns("No") => (~programRunning' /\ saveCalls' = 0)]_vars

(***************************************************************************)
(* C2. One modal per quit attempt: a quit signal handled with the guard    *)
(* off and unsaved state sets the guard and opens exactly one modal, the   *)
(* guard is set whenever the modal is open, and a quit signal polled while *)
(* the guard is set opens no modal and changes no flag.                    *)
(***************************************************************************)
C2_OneModalPerQuit ==
    [][/\ (Polls(QuitEvent) /\ allowSigterm /\ ~configIsSaved)
            => (pc' = "modal" /\ ~allowSigterm' /\ modalCalls' = modalCalls + 1)
       /\ (pc' = "modal") => ~allowSigterm'
       /\ (Polls(QuitEvent) /\ ~allowSigterm)
            => (pc' = "handleInput" /\ UNCHANGED <<flags, configIsSaved, counts>>)]_vars

\* A second quit signal was polled after the one modal of this drain had
\* been answered; the guard is still set.
C2_Witness ==
    /\ pc = "handleInput"
    /\ modalCalls = 1
    /\ answer \in {"No", "Yes"}
    /\ ~allowSigterm
    /\ \E i \in 1..Len(log) : \E j \in (i + 1)..Len(log) :
          log[i] = "SDL_ShowMessageBox" /\ log[j] = "SDL_QUIT"

(***************************************************************************)
(* C3. A quit signal handled with the guard off and the state saved sets   *)
(* the Running Flag false in that step, opens no modal and invokes no      *)
(* save; the flag stays false and the loop begins no further iteration.    *)
(***************************************************************************)
C3_QuitSavedStopsSameTick ==
    [][/\ (Polls(QuitEvent) /\ allowSigterm /\ configIsSaved)
            => (~programRunning' /\ pc' = "handleInput" /\ UNCHANGED counts)
       /\ Stopped => (~programRunning' /\ ticks' = ticks)]_vars

\* The loop has ended after a quit signal that needed no modal.
C3_Witness ==
    /\ pc = "delay"
    /\ ~programRunning
    /\ QuitsPolled = 1
    /\ modalCalls = 0
    /\ configIsSaved

(***************************************************************************)
(* C4. No re-entry from Stopped: once the Running Flag is false, whatever  *)
(* events are still polled, no modal is shown, savePalette is not invoked  *)
(* and the flag does not become true again.                                *)
(***************************************************************************)
C4_NoReentryFromStopped ==
    [][Stopped => (/\ modalCalls' = modalCalls
                   /\ saveCalls' = saveCalls
                   /\ ~programRunning')]_vars

(***************************************************************************)
(* C5. When SDL_ShowMessageBox fails, the guard is reset, the Running Flag *)
(* is set false and savePalette is not invoked by that attempt.            *)
(***************************************************************************)
C5_ModalFailureFailsOpen ==
    [][ModalReturns("error")
         => (/\ allowSigterm'
             /\ ~programRunning'
             /\ saveCalls' = saveCalls
             /\ pc' = "handleInput")]_vars

\* The modal has failed: the drain goes on with the guard off, stopped.
C5_Witness ==
    /\ answer = "error"
    /\ pc = "handleInput"
    /\ allowSigterm
    /\ ~programRunning
    /\ saveCalls = 0

(***************************************************************************)
(* C6. The render functions are called only in step 3 and only if          *)
(* Redraw-Pending is true there; if it is false there, none is called.     *)
(***************************************************************************)
C6_RenderOnlyWhenPending ==
    [][/\ (Len(Rendered') > Len(Rendered)) => (pc = "redraw" /\ redrawScreen)
       /\ (pc = "redraw" /\ ~redrawScreen) => (Rendered' = Rendered)]_vars

\* An iteration reached its sleep without a render call.
C6_Witness ==
    /\ pc = "delay"
    /\ ticks = 2
    /\ Rendered = <<>>

(***************************************************************************)
(* C7. Redraw-Pending is true when the loop is first entered, the first    *)
(* iteration makes each render call exactly once whatever events are       *)
(* queued, and a later iteration renders only if a handler set             *)
(* Redraw-Pending in it.                                                   *)
(***************************************************************************)
C7_FirstFrameRenders ==
    /\ (pc = "loop" /\ ticks = 0) => redrawScreen
    /\ (ticks = 1 /\ pc \in {"delay", "loop"}) => Rendered = RenderCalls
    /\ (ticks = 1 /\ pc \notin {"delay", "loop"}) => Rendered = <<>>
    /\ (ticks > 1 /\ Rendered # <<>>) => (redrawAsked /\ Rendered = RenderCalls)

\* The first iteration has rendered once, with events polled before.
C7_Witness ==
    /\ ticks = 1
    /\ pc = "delay"
    /\ Rendered = RenderCalls
    /\ posted = MaxEvents
    /\ queue = <<>>

(***************************************************************************)
(* C8. Whatever the window size and the raw coordinates, the Pointer State *)
(* readMouseXY writes lies in [0, SCREEN_W-1] x [0, SCREEN_H-1], in every  *)
(* state.                                                                  *)
(***************************************************************************)
C8_PointerInRange ==
    /\ mouseX \in 0..(SCREEN_W - 1)
    /\ mouseY \in 0..(SCREEN_H - 1)

\* A raw coordinate inside the window was mapped to the last column.
C8_Witness ==
    /\ pc = "handleInput"
    /\ 0 <= mx /\ mx < winW
    /\ winW > 2 * SCREEN_W
    /\ mouseX = SCREEN_W - 1

(***************************************************************************)
(* C9. A negative raw coordinate gives the logical coordinate 0, for every *)
(* scale multiplier.                                                       *)
(***************************************************************************)
C9_NegativeRawGivesZero ==
    /\ (mx < 0) => (mouseX = 0)
    /\ (my < 0) => (mouseY = 0)

\* A negative raw coordinate was mapped under a multiplier other than 1.0.
C9_Witness ==
    /\ pc = "handleInput"
    /\ mx < 0
    /\ xScaleMul # NeutralMul
    /\ mouseX = 0

(***************************************************************************)
(* C10. In a 1:1 window the scale multiplier is 65536 and the mapping is   *)
(* the identity on [0, logicalDimension-1], on either axis.                *)
(***************************************************************************)
C10_IdentityAtOneToOne ==
    /\ (pc # "main" /\ winW = SCREEN_W)
         => (/\ xScaleMul = NeutralMul
             /\ (pc = "handleInput" /\ mx \in 0..(SCREEN_W - 1)) => mouseX = mx)
    /\ (pc # "main" /\ winH = SCREEN_H)
         => (/\ yScaleMul = NeutralMul
             /\ (pc = "handleInput" /\ my \in 0..(SCREEN_H - 1)) => mouseY = my)

\* The last logical row was mapped to itself in a window of the canvas's height.
C10_Witness ==
    /\ pc = "handleInput"
    /\ winH = SCREEN_H
    /\ my = SCREEN_H - 1
    /\ mouseY = my

(***************************************************************************)
(* C11. 128x64 canvas in a 256x128 window: the multiplier is 32768, and    *)
(* raw x = 255 gives ((255*32768)+32768)>>16 = 127 before the clamp and    *)
(* 127 after it.                                                           *)
(***************************************************************************)
C11_LastColumnBeforeClamp127 ==
    (pc = "handleInput" /\ winW = 2 * SCREEN_W /\ mx = 2 * SCREEN_W - 1)
        => (/\ xScaleMul = HalfUnit
            /\ ScaleShift(ClampLow(mx), xScaleMul) = SCREEN_W - 1
            /\ mouseX = SCREEN_W - 1)

\* As amended: the value before the clamp is 128, one past the last column;
\* the clamp brings it to 127.
C11_LastColumnClampedTo127 ==
    (pc = "handleInput" /\ winW = 2 * SCREEN_W /\ mx = 2 * SCREEN_W - 1)
        => (/\ xScaleMul = HalfUnit
            /\ ScaleShift(ClampLow(mx), xScaleMul) = SCREEN_W
            /\ mouseX = SCREEN_W - 1)

\* Raw x = 255 was mapped in the 256-wide window.
C11_Witness ==
    /\ pc = "handleInput"
    /\ winW = 2 * SCREEN_W
    /\ mx = 2 * SCREEN_W - 1
    /\ mouseX = SCREEN_W - 1

(***************************************************************************)
(* C12. At each of the five failure points setupVideo shows exactly one    *)
(* error box and returns false; main calls SDL_Quit and returns 0, with no *)
(* setupGUI, the Running Flag never true and no iteration of the loop.     *)
(***************************************************************************)
IsErrorBox(c) == c = "showErrorMsgBox"
IsSetupGUI(c) == c = "setupGUI"

C12_InitFailureExitsCleanly ==
    [][/\ (pc = "main" /\ log' # <<>> /\ log'[1] \in FailPoints)
            => (/\ pc' = "done"
                /\ exitCode' = 0
                /\ Len(SelectSeq(log', IsErrorBox)) = 1
                /\ SelectSeq(log', IsSetupGUI) = <<>>
                /\ log'[Len(log')] = "SDL_Quit"
                /\ ~programRunning'
                /\ ticks' = 0)
       /\ (pc = "done") => UNCHANGED vars]_vars

\* The frame-buffer allocation failed and main has returned.
C12_Witness ==
    /\ pc = "done"
    /\ log = <<"malloc", "showErrorMsgBox", "SDL_Quit">>
    /\ exitCode = 0
    /\ ~programRunning
    /\ ticks = 0

(***************************************************************************)
(* C13. Once the Running Flag is false the loop terminates: the current    *)
(* iteration is finished, no further one begins, the loaded file buffer    *)
(* (if any) and the canvas buffer are released once each, then SDL_Quit,   *)
(* and main returns 0.                                                     *)
(***************************************************************************)
ExitCalls == {<<"free(loadedFile)", "free(frameBuffer)", "SDL_Quit">>,
              <<"free(frameBuffer)", "SDL_Quit">>}

C13_StoppedTerminates ==
    /\ Stopped ~> (pc = "done")
    /\ [](pc = "done" /\ ticks > 0 => exitCode = 0 /\ log \in ExitCalls)
    /\ [][/\ Stopped => ticks' = ticks
          /\ (pc # "done" /\ pc' = "done" /\ ticks > 0)
               => (pc = "loop" /\ log # <<>> /\ log[Len(log)] = "SDL_Delay")]_vars

\* The loop has ended and main has returned after releasing both buffers.
C13_Witness ==
    /\ pc = "done"
    /\ ticks = 1
    /\ exitCode = 0
    /\ log = <<"free(loadedFile)", "free(frameBuffer)", "SDL_Quit">>

(***************************************************************************)
(* C14. Every iteration of the loop performs, in this order: readMouseXY,  *)
(* handleInput, the conditional redraw (which clears Redraw-Pending), and  *)
(* exactly one sleep of floor(1000/60)+1 = 17 ms, not less than 1000/60    *)
(* ms; no step is skipped or reordered, also in the iteration in which the *)
(* Running Flag becomes false.                                             *)
(***************************************************************************)
HeldCalls == <<"handleSlidersHeldDown", "handleRainbowHeldDown",
               "handleRainbowUpDownButtons">>

IsStepCall(c) ==
    \/ c \in {"readMouseXY", "SDL_Delay"}
    \/ \E i \in 1..Len(HeldCalls) : HeldCalls[i] = c
    \/ IsRenderCall(c)

\* The steps of the current iteration, the dispatch of the events left out.
StepCalls == SelectSeq(log, IsStepCall)

\* The last n entries of the log.
LogTail(n) == SubSeq(log, Len(log) - n + 1, Len(log))

C14_TickOrder ==
    /\ (pc \in {"handleInput", "modal", "savePalette", "saved"})
         => (StepCalls = <<"readMouseXY">> /\ log[1] = "readMouseXY" /\ sleptMs = 0)
    /\ (pc = "redraw")
         => (/\ StepCalls = <<"readMouseXY">> \o HeldCalls
             /\ LogTail(Len(HeldCalls)) = HeldCalls
             /\ sleptMs = 0)
    /\ (pc = "delay")
         => (/\ StepCalls \in {<<"readMouseXY">> \o HeldCalls,
                               <<"readMouseXY">> \o HeldCalls \o RenderCalls}
             /\ ~redrawScreen
             /\ sleptMs = 0)
    /\ (pc = "loop" /\ ticks >= 1)
         => (/\ StepCalls \in {<<"readMouseXY">> \o HeldCalls \o <<"SDL_Delay">>,
                               <<"readMouseXY">> \o HeldCalls \o RenderCalls
                                   \o <<"SDL_Delay">>}
             /\ log[1] = "readMouseXY"
             /\ LogTail(Len(StepCalls) - 1) = Tail(StepCalls)
             /\ ~redrawScreen
             /\ sleptMs = 17
             /\ 60 * sleptMs >= 1000)

\* The iteration in which a quit signal stopped the program is complete.
C14_Witness ==
    /\ pc = "loop"
    /\ ticks = 1
    /\ ~programRunning
    /\ QuitsPolled >= 1
    /\ Rendered = RenderCalls
    /\ sleptMs = 17

(***************************************************************************)
(* C15. In every iteration, once the event queue has been drained until    *)
(* empty, handleSlidersHeldDown, handleRainbowHeldDown and                 *)
(* handleRainbowUpDownButtons are each invoked exactly once, in that       *)
(* order, however many events were polled, a quit signal that stopped the  *)
(* program included.                                                       *)
(***************************************************************************)
IsHeldCall(c) == \E i \in 1..Len(HeldCalls) : HeldCalls[i] = c

HeldCalled == SelectSeq(log, IsHeldCall)

C15_HeldHandlersOncePerTick ==
    /\ [](/\ (pc \in {"readMouseXY", "handleInput", "modal", "savePalette", "saved"})
               => HeldCalled = <<>>
          /\ (pc \in {"redraw", "delay"} \/ (pc = "loop" /\ ticks >= 1))
               => HeldCalled = HeldCalls)
    /\ [][(HeldCalled' # HeldCalled /\ HeldCalled' # <<>>)
            => (/\ pc = "handleInput"
                /\ queue = <<>>
                /\ queue' = <<>>
                /\ log' = log \o HeldCalls)]_vars

\* The held-down handlers ran after a drain that polled the quit signal
\* which stopped the program, and another event.
C15_Witness ==
    /\ pc = "redraw"
    /\ ~programRunning
    /\ QuitsPolled = 1
    /\ posted = 2
    /\ LogTail(Len(HeldCalls)) = HeldCalls

(***************************************************************************)
(* C16. While the modal is open nothing else of the iteration happens (no  *)
(* event is polled, no handler is invoked, no coordinate is mapped,        *)
(* nothing is rendered), and an event that enters the queue while the      *)
(* modal is open is not polled before the modal has returned and dispatch  *)
(* has resumed in the next iteration.                                      *)
(***************************************************************************)
\* The modal was opened in the current iteration.
ModalInThisTick == \E i \in 1..Len(log) : log[i] = "SDL_ShowMessageBox"

\* The step polls an event that was posted while the modal was open.
PollsHeldBack ==
    pc = "handleInput" /\ queue # <<>> /\ queue' = Tail(queue) /\ Head(qmark)

\* The modal stays open over the step: at most an event is buffered.
QuietWhileModal ==
    (pc = "modal" /\ pc' = "modal")
        => (/\ \E e \in Events : queue' = Append(queue, e)
            /\ UNCHANGED <<log, mouse, flags, configIsSaved, ticks, counts, sleptMs>>)

C16_HeldBackUntilNextTick ==
    [][/\ QuietWhileModal
       /\ PollsHeldBack => ~ModalInThisTick]_vars

(***************************************************************************)
(* C17. Events are polled in queue order and routed by type: a key-down    *)
(* calls keyDownHandler with its key code; a left mouse-button-up or -down *)
(* calls mouseButtonUpHandler or mouseButtonDownHandler; a mouse-button    *)
(* event of another button, and a quit signal polled while the quit-guard  *)
(* is set, call no handler and change none of the Running, quit-guard and  *)
(* Redraw-Pending flags.                                                   *)
(***************************************************************************)
MouseButtonHandler(t) ==
    IF t = "SDL_MOUSEBUTTONUP" THEN "mouseButtonUpHandler" ELSE "mouseButtonDownHandler"

C17_RoutedByType ==
    [][/\ (Len(queue') < Len(queue))
            => (pc = "handleInput" /\ queue' = Tail(queue))
       /\ \A k \in Keys :
            Polls(Ev("SDL_KEYDOWN", k))
                => (/\ log' = log \o <<"SDL_KEYDOWN", "keyDownHandler", ToString(k)>>
                    /\ UNCHANGED <<programRunning, allowSigterm>>)
       /\ \A t \in {"SDL_MOUSEBUTTONUP", "SDL_MOUSEBUTTONDOWN"} :
            /\ Polls(Ev(t, SDL_BUTTON_LEFT))
                 => (/\ log' = log \o <<t, MouseButtonHandler(t)>>
                     /\ UNCHANGED <<programRunning, allowSigterm>>)
            /\ \A b \in Buttons \ {SDL_BUTTON_LEFT} :
                 Polls(Ev(t, b))
                     => (log' = Append(log, t) /\ UNCHANGED <<flags, pc>>)
       /\ (Polls(QuitEvent) /\ ~allowSigterm)
            => (log' = Append(log, "SDL_QUIT") /\ UNCHANGED <<flags, pc>>)]_vars

\* A right-button release was polled and ignored, then the key 98 was
\* given to keyDownHandler.
C17_Witness ==
    /\ pc = "handleInput"
    /\ log = <<"readMouseXY", "SDL_MOUSEBUTTONUP", "SDL_KEYDOWN", "keyDownHandler", "98">>

(***************************************************************************)
(* C18. Whenever handleInput has returned, and at every evaluation of the  *)
(* loop condition, a set quit-guard implies a stopped program:             *)
(* allowSigterm = FALSE implies programRunning = FALSE.  The program never *)
(* keeps running while it ignores every quit signal.                       *)
(***************************************************************************)
HandleInputReturned == pc \in {"redraw", "delay", "loop"}

C18_GuardSetImpliesStopped ==
    (HandleInputReturned /\ ~allowSigterm) => ~programRunning

\* The loop condition is evaluated with the guard set, after the modal was
\* answered "No".
C18_Witness ==
    /\ pc = "loop"
    /\ ~allowSigterm
    /\ ~programRunning
    /\ answer = "No"

(***************************************************************************)
(* C19. A redraw asked for by a handler during an iteration's dispatch is  *)
(* presented in that same iteration, before the sleep, also in the last    *)
(* iteration, the one in which programRunning becomes false.  redrawScreen *)
(* is false at every sleep and at the loop's exit: no request is lost or   *)
(* carried over to a later iteration.                                      *)
(***************************************************************************)
C19_RedrawPresentedSameTick ==
    /\ (pc = "delay" /\ redrawAsked)
          => (Rendered = RenderCalls /\ sleptMs = 0)
    /\ (pc = "loop" /\ ticks >= 1 /\ redrawAsked)
          => (Rendered = RenderCalls /\ log[Len(log)] = "SDL_Delay")
    /\ (pc = "delay" \/ (pc = "loop" /\ ~programRunning) \/ pc = "done")
          => ~redrawScreen

\* The loop condition fails after an iteration, not the first, in which a
\* handler asked for a redraw and the frame was presented.
C19_Witness ==
    /\ pc = "loop"
    /\ ~programRunning
    /\ ticks = 2
    /\ redrawAsked
    /\ Rendered = RenderCalls
    /\ ~redrawScreen

(***************************************************************************)
(* C20. For a startup window size P >= 1 and logical size L, the           *)
(* multiplier is round(65536 * L / P), and for every raw coordinate r in   *)
(* 0..P-1 the unsigned 32-bit value of r * scaleMul + 32768 is the value   *)
(* over the unbounded integers (it does not wrap modulo 2^32), so the      *)
(* logical coordinate is that of the unbounded computation.  The           *)
(* multipliers are written at startup only: no later step changes them.    *)
(***************************************************************************)
\* mul is 65536 * dim / size rounded to the nearest integer.
IsRounded(mul, size, dim) ==
    LET d == mul * size - NeutralMul * dim
    IN  2 * (IF d < 0 THEN 0 - d ELSE d) <= size

\* r * mul + 32768 < 2^32, and the 32-bit result is the unbounded one.
NoWrap(r, mul) ==
    /\ (r * mul + HalfUnit) \div Word16 < Word16
    /\ ScaleShift(r, mul) = (r * mul + HalfUnit) \div Word16

AxisExact(r, pos, mul, size, dim) ==
    (size >= 1 /\ r \in 0..(size - 1))
        => (/\ IsRounded(mul, size, dim)
            /\ NoWrap(r, mul)
            /\ pos = ClampHigh((r * mul + HalfUnit) \div Word16, dim))

C20_ScalingDoesNotWrap ==
    /\ [](pc = "handleInput"
            => (/\ AxisExact(mx, mouseX, xScaleMul, winW, SCREEN_W)
                /\ AxisExact(my, mouseY, yScaleMul, winH, SCREEN_H)))
    /\ [][pc # "main" => UNCHANGED <<xScaleMul, yScaleMul>>]_vars

\* The last column of the widest window has been mapped.
C20_Witness ==
    /\ pc = "handleInput"
    /\ winW = MaxWinW
    /\ mx = winW - 1
    /\ xScaleMul = ScaleMul(MaxWinW, SCREEN_W)
    /\ mouseX = SCREEN_W - 1

====
